---------------------------- MODULE Spec2Model ----------------------------
(***************************************************************************)
(* Equirectangular panorama -> six cube-map faces (convert_ps_to_cubemaps). *)
(*                                                                         *)
(* Numbers.  The program computes in binary floating point.  Here every    *)
(* quantity is an exact integer in a stated unit:                          *)
(*   - a direction component is held in units of 1/(FIX*edge_length), so   *)
(*     2*i/edge_length and 1 - a are exact;                                *)
(*   - an angle is held in units of pi/PI (half a degree), atan2 rounding  *)
(*     to the nearest unit and being exact on the axes and diagonals, as   *)
(*     the library function is;                                            *)
(*   - uf, vf are rationals with the common denominator UVDen = 2*PI, so   *)
(*     floor, the fractional weights mu, nu and the blend are exact.       *)
(***************************************************************************)
EXTENDS Integers, Sequences, FiniteSets, TLC

VARIABLES
    input_size,     \* <<W, H>> of the source image
    input_pixels,   \* source pixel access: [<<col,row>> -> <<r,g,b>>]
    heap,           \* image objects: id -> [size |-> <<w,h>>, pixels |-> ...]
    out_image,      \* id of the output image being generated (0: none)
    cube_face_id,   \* face id handed to generate_cubemap_face
    faces_todo,     \* driver position: names of the faces still to generate
    x_out, y_out,   \* loop counters of generate_cubemap_face
    loc,            \* locals of the loop body after its last execution
    pc,             \* "new", "loop", "returned", "done", "IndexError", "par"
    saved,          \* sink: sequence of [face, img, pixels] handed to save
    writes,         \* history: id -> [<<col,row>> -> number of writes]
    dirs,           \* history: the <<face id, direction>> pairs computed so far
    wk              \* workers of the parallel map (ParSpec only)

vars == <<input_size, input_pixels, heap, out_image, cube_face_id, faces_todo,
          x_out, y_out, loc, pc, saved, writes, dirs, wk>>

----------------------------------------------------------------------------
(* Bounds of the model *)

MaxEdge == 4      \* largest face edge length
MaxW == 8         \* largest source width when the face is generated alone
MaxH == 4         \* largest source height when the face is generated alone
MaxParPixels == 4 \* most pixels generated by the parallel map
NumWorkers == 2   \* workers of the parallel map

(* Resolution of the arithmetic *)

FIX == 256        \* sub-units of a direction component per 1/edge_length
PI == 360         \* math.pi in angle units
TanScale == 65536 \* scale of the tangent table

\* tan((k - 1/2) * pi/PI) * TanScale for k = 1 .. PI/4: the boundaries between
\* the angles that round to k-1 and to k units.
TanHalf == <<
  286, 858, 1430, 2002, 2575, 3148, 3721, 4295, 4870, 5446, 6022, 6599, 7177, 7757, 8337,
  8919, 9502, 10087, 10673, 11261, 11851, 12442, 13036, 13632, 14229, 14829, 15432, 16037,
  16644, 17254, 17867, 18483, 19102, 19724, 20349, 20978, 21611, 22246, 22886, 23530,
  24178, 24829, 25486, 26146, 26811, 27482, 28156, 28837, 29522, 30213, 30909, 31611,
  32319, 33033, 33753, 34480, 35214, 35954, 36702, 37457, 38219, 38990, 39768, 40555,
  41350, 42154, 42967, 43790, 44622, 45464, 46316, 47179, 48053, 48938, 49835, 50743,
  51664, 52598, 53545, 54506, 55480, 56469, 57474, 58493, 59529, 60581, 61650, 62737,
  63842, 64967 >>

UVDen == 2 * PI   \* common denominator of uf and vf

----------------------------------------------------------------------------
(* math *)

Abs(n) == IF n < 0 THEN -n ELSE n

Min(a, b) == IF a <= b THEN a ELSE b

Max(a, b) == IF a >= b THEN a ELSE b

\* the element of a one-element set: binds a computed value once
Only(S) == CHOOSE v \in S : TRUE

RECURSIVE SqrtSearch(_, _, _)
\* largest s in lo..hi with s*s <= n
SqrtSearch(n, lo, hi) ==
    IF lo = hi THEN lo
    ELSE Only({IF mid * mid <= n THEN SqrtSearch(n, mid, hi)
                                 ELSE SqrtSearch(n, lo, mid - 1) :
               mid \in {(lo + hi + 1) \div 2}})

\* math.hypot: sqrt(x*x + y*y) rounded to the nearest unit
hypot(x, y) ==
    LET n == x * x + y * y
        s == SqrtSearch(n, 0, Abs(x) + Abs(y))
    IN IF n - s * s > s THEN s + 1 ELSE s

\* atan(n/d) for 0 <= n <= d, d > 0, in angle units, rounded to nearest
atan01(n, d) ==
    Cardinality({k \in 1..Len(TanHalf) : TanHalf[k] * d <= n * TanScale})

\* math.atan2 in angle units: a value in -PI .. PI
atan2(y, x) ==
    IF x = 0 /\ y = 0 THEN 0
    ELSE LET ax == Abs(x)
             ay == Abs(y)
             base == IF ay <= ax THEN atan01(ay, ax)
                                 ELSE PI \div 2 - atan01(ax, ay)
         IN IF x >= 0 THEN (IF y >= 0 THEN base ELSE -base)
                      ELSE (IF y >= 0 THEN PI - base ELSE base - PI)

\* np.clip
clip(v, lo, hi) == Min(Max(v, lo), hi)

\* round() of the non-negative rational n/d: halves round away from zero
round(n, d) == (2 * n + d) \div (2 * d)

----------------------------------------------------------------------------
(* Configuration parameters *)

CUBEMAP_FACES ==
    [back |-> 0, left |-> 1, front |-> 2, right |-> 3, top |-> 4, bottom |-> 5]

FaceNames == {"back", "left", "front", "right", "top", "bottom"}

----------------------------------------------------------------------------
(* output_image_to_xyz: components in units of 1/(FIX*edge_length) *)

\* a slip: the arguments read as (row, column), as the docstring words them
output_image_to_xyz_rowcol(i, j, face_id, edge_length) ==
    LET one == FIX * edge_length
        a == 2 * j * FIX
        b == 2 * i * FIX
    IN CASE face_id = CUBEMAP_FACES.back   -> <<-one, one - a, one - b>>
         [] face_id = CUBEMAP_FACES.left   -> <<a - one, -one, one - b>>
         [] face_id = CUBEMAP_FACES.front  -> <<one, a - one, one - b>>
         [] face_id = CUBEMAP_FACES.right  -> <<one - a, one, one - b>>
         [] face_id = CUBEMAP_FACES.top    -> <<b - one, a - one, one>>
         [] face_id = CUBEMAP_FACES.bottom -> <<one - b, a - one, -one>>

\* a slip: a and b are not divided by edge_length
output_image_to_xyz_nodiv(i, j, face_id, edge_length) ==
    LET one == FIX * edge_length
        a == 2 * i * FIX * edge_length
        b == 2 * j * FIX * edge_length
    IN CASE face_id = CUBEMAP_FACES.back   -> <<-one, one - a, one - b>>
         [] face_id = CUBEMAP_FACES.left   -> <<a - one, -one, one - b>>
         [] face_id = CUBEMAP_FACES.front  -> <<one, a - one, one - b>>
         [] face_id = CUBEMAP_FACES.right  -> <<one - a, one, one - b>>
         [] face_id = CUBEMAP_FACES.top    -> <<b - one, a - one, one>>
         [] face_id = CUBEMAP_FACES.bottom -> <<one - b, a - one, -one>>

\* a slip: the bottom face is given the z of the top face
output_image_to_xyz_bottomup(i, j, face_id, edge_length) ==
    LET one == FIX * edge_length
        a == 2 * i * FIX
        b == 2 * j * FIX
    IN CASE face_id = CUBEMAP_FACES.back   -> <<-one, one - a, one - b>>
         [] face_id = CUBEMAP_FACES.left   -> <<a - one, -one, one - b>>
         [] face_id = CUBEMAP_FACES.front  -> <<one, a - one, one - b>>
         [] face_id = CUBEMAP_FACES.right  -> <<one - a, one, one - b>>
         [] face_id = CUBEMAP_FACES.top    -> <<b - one, a - one, one>>
         [] face_id = CUBEMAP_FACES.bottom -> <<one - b, a - one, one>>

\* a slip: the formulas of the back and front faces are exchanged
output_image_to_xyz_frontback(i, j, face_id, edge_length) ==
    LET one == FIX * edge_length
        a == 2 * i * FIX
        b == 2 * j * FIX
    IN CASE face_id = CUBEMAP_FACES.back   -> <<one, a - one, one - b>>
         [] face_id = CUBEMAP_FACES.left   -> <<a - one, -one, one - b>>
         [] face_id = CUBEMAP_FACES.front  -> <<-one, one - a, one - b>>
         [] face_id = CUBEMAP_FACES.right  -> <<one - a, one, one - b>>
         [] face_id = CUBEMAP_FACES.top    -> <<b - one, a - one, one>>
         [] face_id = CUBEMAP_FACES.bottom -> <<one - b, a - one, -one>>

output_image_to_xyz(i, j, face_id, edge_length) ==
    LET one == FIX * edge_length
        a == 2 * i * FIX
        b == 2 * j * FIX
    IN CASE face_id = CUBEMAP_FACES.back   -> <<-one, one - a, one - b>>
         [] face_id = CUBEMAP_FACES.left   -> <<a - one, -one, one - b>>
         [] face_id = CUBEMAP_FACES.front  -> <<one, a - one, one - b>>
         [] face_id = CUBEMAP_FACES.right  -> <<one - a, one, one - b>>
         [] face_id = CUBEMAP_FACES.top    -> <<b - one, a - one, one>>
         [] face_id = CUBEMAP_FACES.bottom -> <<one - b, a - one, -one>>

----------------------------------------------------------------------------
(* generate_cubemap_face: one execution of the loop body *)

Channels == 1..3

\* pixel access of an image of size <<w,h>>: the index is inside the image
InImage(size, idx) ==
    /\ 0 <= idx[1] /\ idx[1] < size[1]
    /\ 0 <= idx[2] /\ idx[2] < size[2]

\* a slip: the right-hand column is not wrapped
CornerIndex_nowrap(ui, vi, u2, v2, size) ==
    [A |-> <<ui % size[1], clip(vi, 0, size[2] - 1)>>,
     B |-> <<u2, clip(vi, 0, size[2] - 1)>>,
     C |-> <<ui % size[1], clip(v2, 0, size[2] - 1)>>,
     D |-> <<u2, clip(v2, 0, size[2] - 1)>>]

\* the index pairs of the four corner fetches A, B, C, D
CornerIndex(ui, vi, u2, v2, size) ==
    [A |-> <<ui % size[1], clip(vi, 0, size[2] - 1)>>,
     B |-> <<u2 % size[1], clip(vi, 0, size[2] - 1)>>,
     C |-> <<ui % size[1], clip(v2, 0, size[2] - 1)>>,
     D |-> <<u2 % size[1], clip(v2, 0, size[2] - 1)>>]

\* a slip: the weights of B and C lose their second factor
interpolate_nocross(A, B, C, D, mu, nu) ==
    A * (UVDen - mu) * (UVDen - nu) + B * mu * UVDen
      + C * UVDen * nu + D * mu * nu

\* a slip: the weights of A and D are exchanged
interpolate_swapped(A, B, C, D, mu, nu) ==
    A * mu * nu + B * mu * (UVDen - nu)
      + C * (UVDen - mu) * nu + D * (UVDen - mu) * (UVDen - nu)

\* a slip: the weight of D is mu * mu
interpolate_mumu(A, B, C, D, mu, nu) ==
    A * (UVDen - mu) * (UVDen - nu) + B * mu * (UVDen - nu)
      + C * (UVDen - mu) * nu + D * mu * mu

\* one channel of the interpolation, over the denominator UVDen * UVDen
interpolate(A, B, C, D, mu, nu) ==
    A * (UVDen - mu) * (UVDen - nu) + B * mu * (UVDen - nu)
      + C * (UVDen - mu) * nu + D * mu * nu

\* the locals before the first iteration
NoLocals == [done |-> FALSE]

\* theta, r and phi of the direction xyz
SphericalOf(xyz) ==
    Only({[xyz |-> xyz, theta |-> atan2(xyz[2], xyz[1]), r |-> r,
           phi |-> atan2(xyz[3], r)] :
          r \in {hypot(xyz[1], xyz[2])}})

\* the direction of output pixel (xo, yo) and its spherical angles
Spherical(xo, yo, face_id, edge_length) ==
    Only({SphericalOf(xyz) : xyz \in {output_image_to_xyz(xo, yo, face_id, edge_length)}})

\* the rest of the body: source coordinates, corner fetches and interpolation
Resample(size, pixels, face_id, edge_length, xo, yo, sph) ==
    LET uf    == size[1] * (sph.theta + PI)
        vf    == size[1] * (PI \div 2 - sph.phi)
        ui    == uf \div UVDen
        vi    == vf \div UVDen
        u2    == ui + 1
        v2    == vi + 1
        mu    == uf - ui * UVDen
        nu    == vf - vi * UVDen
        idx   == CornerIndex(ui, vi, u2, v2, size)
        ok    == \A c \in {"A", "B", "C", "D"} : InImage(size, idx[c])
        A     == IF ok THEN pixels[idx.A] ELSE <<0, 0, 0>>
        B     == IF ok THEN pixels[idx.B] ELSE <<0, 0, 0>>
        C     == IF ok THEN pixels[idx.C] ELSE <<0, 0, 0>>
        D     == IF ok THEN pixels[idx.D] ELSE <<0, 0, 0>>
        rgb   == [k \in Channels |->
                    round(interpolate(A[k], B[k], C[k], D[k], mu, nu),
                          UVDen * UVDen)]
    IN [done |-> TRUE, x_out |-> xo, y_out |-> yo, face |-> face_id,
        edge_length |-> edge_length, xyz |-> sph.xyz,
        theta |-> sph.theta, r |-> sph.r, phi |-> sph.phi, uf |-> uf, vf |-> vf,
        ui |-> ui, vi |-> vi, u2 |-> u2, v2 |-> v2, mu |-> mu, nu |-> nu,
        idx |-> idx, ok |-> ok, A |-> A, B |-> B, C |-> C, D |-> D,
        rgb |-> rgb]

\* a slip: phi is computed before r is assigned, from the r that the previous
\* iteration left in the frame
Body_stale_r(prev, size, pixels, face_id, edge_length, xo, yo) ==
    Only({Resample(size, pixels, face_id, edge_length, xo, yo,
                   IF prev.done
                   THEN [sph EXCEPT !.phi = atan2(sph.xyz[3], prev.r)]
                   ELSE sph) :
            sph \in {Spherical(xo, yo, face_id, edge_length)}})

\* The loop body for output pixel (xo, yo): the locals it leaves.  prev is the
\* frame's locals as the previous iteration left them; the body assigns every
\* local before it reads it, so prev is not read.
Body(prev, size, pixels, face_id, edge_length, xo, yo) ==
    Only({Resample(size, pixels, face_id, edge_length, xo, yo, sph) :
            sph \in {Spherical(xo, yo, face_id, edge_length)}})

\* output_pixels[x_out, y_out] = (...)
WritePixel(pixels, xo, yo, rgb) == [pixels EXCEPT ![<<xo, yo>>] = rgb]

\* a slip: the inner loop stops one pixel short
NextCounter_short(xo, yo, edge_length) ==
    IF yo + 1 < edge_length - 1 THEN <<xo, yo + 1>> ELSE <<xo + 1, 0>>

\* the loop counters after the iteration (x_out, y_out): y_out is the inner loop
NextCounter(xo, yo, edge_length) ==
    IF yo + 1 < edge_length THEN <<xo, yo + 1>> ELSE <<xo + 1, 0>>

----------------------------------------------------------------------------
(* Images *)

Grid(w, h) == (0..(w - 1)) \X (0..(h - 1))

\* Image.new("RGB", (w, h), "black")
NewImage(w, h) == [size |-> <<w, h>>, pixels |-> [p \in Grid(w, h) |-> <<0, 0, 0>>]]

Red == <<255, 0, 0>>

White == <<255, 255, 255>>

Uniform(w, h, c) == [p \in Grid(w, h) |-> c]

\* a single white pixel at the left edge, mid-latitude; black elsewhere
SpotAt(w, h) == <<0, h \div 2>>

Spot(w, h) == [p \in Grid(w, h) |-> IF p = SpotAt(w, h) THEN White ELSE <<0, 0, 0>>]

\* a source whose neighbouring pixels all differ, with channels 0 and 255 in it
Gradient(w, h) ==
    [p \in Grid(w, h) |->
        <<(p[1] * 85) % 256, 255 - ((p[2] * 51) % 256), ((p[1] + 3 * p[2]) * 37) % 256>>]

\* the decoded source images considered
SourceImages(w, h) == {Uniform(w, h, Red), Spot(w, h), Gradient(w, h)}

\* the driver resizes every input to INPUT_WIDTH x INPUT_HEIGHT = 2048 x 1024;
\* the sizes considered keep its ratios: width = 2 * height = 4 * edge
ResizeTargets == {<<4 * e, 2 * e>> : e \in 1..MaxEdge}

----------------------------------------------------------------------------
(* generate_cubemap_outputs: the driver *)

\* the order in which the driver generates and saves the faces
FaceOrder == <<"left", "front", "right", "back", "top", "bottom">>

\* edge_length = input_size[0] / 4
DriverEdge(size) == size[1] \div 4

\* edge_length = output_size[0], inside generate_cubemap_face
EdgeOf(img) == img.size[1]

Init ==
    \E size \in ResizeTargets :
      \E img \in SourceImages(size[1], size[2]) :
        /\ input_size = size
        /\ input_pixels = img
        /\ heap = << >>
        /\ out_image = 0
        /\ cube_face_id = -1
        /\ faces_todo = FaceOrder
        /\ x_out = 0
        /\ y_out = 0
        /\ loc = NoLocals
        /\ pc = "new"
        /\ saved = << >>
        /\ writes = << >>
        /\ dirs = {}
        /\ wk = << >>

\* out_image = Image.new("RGB", (edge_length, edge_length), "black"), and the
\* call of generate_cubemap_face up to its loop
NewFace ==
    /\ pc = "new"
    /\ faces_todo # << >>
    /\ LET e == DriverEdge(input_size)
       IN /\ heap' = Append(heap, NewImage(e, e))
          /\ writes' = Append(writes, [p \in Grid(e, e) |-> 0])
    /\ out_image' = Len(heap) + 1
    /\ cube_face_id' = CUBEMAP_FACES[Head(faces_todo)]
    /\ x_out' = 0
    /\ y_out' = 0
    /\ loc' = NoLocals
    /\ pc' = "loop"
    /\ UNCHANGED <<input_size, input_pixels, faces_todo, saved, dirs, wk>>

\* one iteration of the nested loop: the body, the write and the counters
PixelStep ==
    /\ pc = "loop"
    /\ x_out < EdgeOf(heap[out_image])
    /\ LET e == EdgeOf(heap[out_image])
           l == Body(loc, input_size, input_pixels, cube_face_id, e, x_out, y_out)
           n == NextCounter(x_out, y_out, e)
       IN /\ loc' = l
          /\ dirs' = dirs \cup {<<cube_face_id, l.xyz>>}
          /\ IF l.ok
             THEN /\ heap' = [heap EXCEPT ![out_image].pixels =
                                  WritePixel(@, x_out, y_out, l.rgb)]
                  /\ writes' = [writes EXCEPT ![out_image][<<x_out, y_out>>] = @ + 1]
                  /\ x_out' = n[1]
                  /\ y_out' = n[2]
                  /\ pc' = pc
             ELSE /\ pc' = "IndexError"
                  /\ UNCHANGED <<heap, writes, x_out, y_out>>
    /\ UNCHANGED <<input_size, input_pixels, out_image, cube_face_id, faces_todo,
                   saved, wk>>

\* the outer loop is exhausted: generate_cubemap_face returns
FaceReturn ==
    /\ pc = "loop"
    /\ x_out = EdgeOf(heap[out_image])
    /\ pc' = "returned"
    /\ UNCHANGED <<input_size, input_pixels, heap, out_image, cube_face_id,
                   faces_todo, x_out, y_out, loc, saved, writes, dirs, wk>>

\* out_image.save(...): the buffer is handed to the sink as it is now
SaveFace ==
    /\ pc = "returned"
    /\ faces_todo # << >>
    /\ saved' = Append(saved, [face |-> Head(faces_todo), img |-> out_image,
                               pixels |-> heap[out_image].pixels])
    /\ faces_todo' = Tail(faces_todo)
    /\ pc' = IF Tail(faces_todo) = << >> THEN "done" ELSE "new"
    /\ UNCHANGED <<input_size, input_pixels, heap, out_image, cube_face_id,
                   x_out, y_out, loc, writes, dirs, wk>>

Next == NewFace \/ PixelStep \/ FaceReturn \/ SaveFace

Spec == Init /\ [][Next]_vars

\* the driver is a sequential program that runs to its end
LiveSpec == Spec /\ WF_vars(Next)

----------------------------------------------------------------------------
(* generate_cubemap_face called on its own, with any source and face size *)

FaceInit ==
    \E w \in 1..MaxW, h \in 1..MaxH, e \in 1..MaxEdge, f \in FaceNames :
      \E img \in SourceImages(w, h) :
        /\ input_size = <<w, h>>
        /\ input_pixels = img
        /\ heap = << NewImage(e, e) >>
        /\ out_image = 1
        /\ cube_face_id = CUBEMAP_FACES[f]
        /\ faces_todo = << >>
        /\ x_out = 0
        /\ y_out = 0
        /\ loc = NoLocals
        /\ pc = "loop"
        /\ saved = << >>
        /\ writes = << [p \in Grid(e, e) |-> 0] >>
        /\ dirs = {}
        /\ wk = << >>

FaceNext == PixelStep \/ FaceReturn

FaceSpec == FaceInit /\ [][FaceNext]_vars

----------------------------------------------------------------------------
(* The loop body run as a parallel map: every worker takes any pixel not yet  *)
(* taken, of any of the faces being generated, runs the body for it in its    *)
(* own frame and writes the result; there is no synchronisation but the join. *)

Workers == 1..NumWorkers

\* the image the driver allocates for face f
ImageOf(f) == CHOOSE id \in 1..Len(FaceOrder) : FaceOrder[id] = f

\* the faces generated together and their edge: the driver's sizes, as many
\* pixels as the bound allows
ParConfigs ==
    {c \in [e : 1..MaxEdge, fs : (SUBSET FaceNames) \ {{}}] :
        c.e * c.e * Cardinality(c.fs) <= MaxParPixels}

ParInit ==
    \E c \in ParConfigs :
        /\ input_size = <<4 * c.e, 2 * c.e>>
        /\ input_pixels = Gradient(4 * c.e, 2 * c.e)
        /\ heap = [id \in 1..Len(FaceOrder) |-> NewImage(c.e, c.e)]
        /\ out_image = 0
        /\ cube_face_id = -1
        /\ faces_todo = << >>
        /\ x_out = 0
        /\ y_out = 0
        /\ loc = NoLocals
        /\ pc = "par"
        /\ saved = << >>
        /\ writes = [id \in 1..Len(FaceOrder) |-> [p \in Grid(c.e, c.e) |-> 0]]
        /\ dirs = {}
        /\ wk = [jobs  |-> c.fs \X Grid(c.e, c.e),
                 taken |-> {},
                 frame |-> [w \in Workers |-> [st |-> "idle", job |-> << >>,
                                               loc |-> NoLocals]]]

\* worker w takes a pixel nobody has taken and runs the loop body for it
Take(w) ==
    /\ pc = "par"
    /\ wk.frame[w].st = "idle"
    /\ \E j \in wk.jobs \ wk.taken :
          LET e == EdgeOf(heap[ImageOf(j[1])])
              l == Body(wk.frame[w].loc, input_size, input_pixels,
                        CUBEMAP_FACES[j[1]], e, j[2][1], j[2][2])
          IN /\ wk' = [wk EXCEPT !.taken = @ \cup {j},
                                 !.frame[w] = [st |-> "computed", job |-> j, loc |-> l]]
             /\ pc' = IF l.ok THEN pc ELSE "IndexError"
    /\ UNCHANGED <<input_size, input_pixels, heap, out_image, cube_face_id,
                   faces_todo, x_out, y_out, loc, saved, writes, dirs>>

\* worker w writes the pixel it computed
Write(w) ==
    /\ pc = "par"
    /\ wk.frame[w].st = "computed"
    /\ LET j == wk.frame[w].job
           l == wk.frame[w].loc
       IN /\ heap' = [heap EXCEPT ![ImageOf(j[1])].pixels =
                          WritePixel(@, j[2][1], j[2][2], l.rgb)]
          /\ writes' = [writes EXCEPT ![ImageOf(j[1])][j[2]] = @ + 1]
    /\ wk' = [wk EXCEPT !.frame[w].st = "idle"]
    /\ UNCHANGED <<input_size, input_pixels, out_image, cube_face_id,
                   faces_todo, x_out, y_out, loc, pc, saved, dirs>>

\* the final join: every pixel is taken and every worker is idle
Join ==
    /\ pc = "par"
    /\ wk.taken = wk.jobs
    /\ \A w \in Workers : wk.frame[w].st = "idle"
    /\ pc' = "joined"
    /\ UNCHANGED <<input_size, input_pixels, heap, out_image, cube_face_id,
                   faces_todo, x_out, y_out, loc, saved, writes, dirs, wk>>

ParNext == (\E w \in Workers : Take(w) \/ Write(w)) \/ Join

ParSpec == ParInit /\ [][ParNext]_vars

RECURSIVE SeqLoop(_, _, _, _, _)
\* the sequential nested loop from iteration k on: x_out outer, y_out inner
SeqLoop(k, prev, pixels, face_id, e) ==
    IF k = e * e THEN pixels
    ELSE Only({SeqLoop(k + 1, l, WritePixel(pixels, k \div e, k % e, l.rgb), face_id, e) :
               l \in {Body(prev, input_size, input_pixels, face_id, e, k \div e, k % e)}})

\* the buffer generate_cubemap_face produces for face f with edge e
SequentialFace(f, e) == SeqLoop(0, NoLocals, NewImage(e, e).pixels, CUBEMAP_FACES[f], e)

----------------------------------------------------------------------------
(* Properties *)

\* the name of the face being generated
FaceName == CHOOSE f \in FaceNames : CUBEMAP_FACES[f] = cube_face_id

\* the source size and the edge length of the face being generated
W == input_size[1]

H == input_size[2]

E == EdgeOf(heap[out_image])

\* the direction the Direction Mapper is specified to return for the pixel in
\* column col and row row of face f, in units of 1/(FIX*e)
SpecDirection(f, col, row, e) ==
    LET one == FIX * e
        a == 2 * col * FIX
        b == 2 * row * FIX
    IN CASE f = "back"   -> <<-one, one - a, one - b>>
         [] f = "left"   -> <<a - one, -one, one - b>>
         [] f = "front"  -> <<one, a - one, one - b>>
         [] f = "right"  -> <<one - a, one, one - b>>
         [] f = "top"    -> <<b - one, a - one, one>>
         [] f = "bottom" -> <<one - b, a - one, -one>>

SpecRow(v) == IF v < 0 THEN 0 ELSE IF v > H - 1 THEN H - 1 ELSE v

\* C2: every fetch of every destination pixel is inside the source image, for
\* any source size: its column is u0 or u0+1 reduced modulo W, its row is v0 or
\* v0+1 clamped to [0, H-1], and the body never fails on an index.
C2_FetchesInBounds ==
    /\ pc # "IndexError"
    /\ loc.done =>
        /\ \A c \in {"A", "B", "C", "D"} :
              /\ loc.idx[c][1] \in 0..(W - 1)
              /\ loc.idx[c][2] \in 0..(H - 1)
        /\ \A c \in {"A", "C"} : (loc.idx[c][1] - loc.ui) % W = 0
        /\ \A c \in {"B", "D"} : (loc.idx[c][1] - (loc.ui + 1)) % W = 0
        /\ \A c \in {"A", "B"} : loc.idx[c][2] = SpecRow(loc.vi)
        /\ \A c \in {"C", "D"} : loc.idx[c][2] = SpecRow(loc.vi + 1)
        /\ (loc.ui = W - 1 => loc.idx.B[1] = 0)
        /\ (loc.ui = W => loc.idx.A[1] = 0 /\ loc.idx.B[1] = 1 % W)

\* a pixel whose right-hand column wrapped across the seam and whose lower row
\* was clamped, on a source that is not 2:1
C2_Witness ==
    /\ loc.done
    /\ 2 * H # W
    /\ W > 1
    /\ loc.u2 >= W
    /\ loc.v2 > H - 1
    /\ loc.idx.D = <<loc.u2 - W, H - 1>>

\* the interpolation weight, over UVDen * UVDen, of corner c in locals l
Weight(l, c) ==
    CASE c = "A" -> (UVDen - l.mu) * (UVDen - l.nu)
      [] c = "B" -> l.mu * (UVDen - l.nu)
      [] c = "C" -> (UVDen - l.mu) * l.nu
      [] c = "D" -> l.mu * l.nu

\* C5: every channel written to the face buffer is an integer in [0,255], the
\* fractional weights mu, nu being in [0,1) and the four corner weights being
\* in [0,1] with sum 1.
C5_ChannelsInRange ==
    /\ \A p \in Grid(E, E) : \A k \in Channels :
          heap[out_image].pixels[p][k] \in 0..255
    /\ loc.done =>
          /\ 0 <= loc.mu /\ loc.mu < UVDen
          /\ 0 <= loc.nu /\ loc.nu < UVDen
          /\ \A c \in {"A", "B", "C", "D"} :
                0 <= Weight(loc, c) /\ Weight(loc, c) <= UVDen * UVDen
          /\ Weight(loc, "A") + Weight(loc, "B") + Weight(loc, "C") + Weight(loc, "D")
                = UVDen * UVDen
          /\ \A k \in Channels : loc.rgb[k] \in 0..255

\* a pixel blended from four corners with both weights fractional, one of its
\* channels reaching 255
C5_Witness ==
    /\ loc.done
    /\ loc.mu > 0 /\ loc.nu > 0
    /\ heap[out_image].pixels[<<loc.x_out, loc.y_out>>][1] = 255
    /\ loc.rgb[1] = 255

\* C6: when the source coordinate (u, v) of a destination pixel is integral
\* (mu = nu = 0) the colour written is exactly that of the source pixel at
\* (u mod W, clamp(v, 0, H-1)).
C6_BilinearIdentity ==
    (loc.done /\ loc.mu = 0 /\ loc.nu = 0) =>
        /\ loc.uf = loc.ui * UVDen /\ loc.vf = loc.vi * UVDen
        /\ heap[out_image].pixels[<<loc.x_out, loc.y_out>>]
             = input_pixels[<<loc.ui % W, SpecRow(loc.vi)>>]

\* an integral source coordinate whose three neighbours all differ from it
C6_Witness ==
    /\ loc.done /\ loc.mu = 0 /\ loc.nu = 0
    /\ loc.A # <<0, 0, 0>>
    /\ loc.B # loc.A /\ loc.C # loc.A /\ loc.D # loc.A
    /\ heap[out_image].pixels[<<loc.x_out, loc.y_out>>] = loc.A

\* C9: the direction of every pixel lies in its face's own region: a side
\* face's azimuth within the 90-degree wedge about its axis and |z| at most
\* max(|x|,|y|); top and bottom with |z| at least max(|x|,|y|).
C9_Coverage ==
    loc.done =>
      LET x == loc.xyz[1]
          y == loc.xyz[2]
          z == loc.xyz[3]
          m == Max(Abs(x), Abs(y))
      IN CASE FaceName = "back"   -> x < 0 /\ Abs(y) <= Abs(x) /\ Abs(z) <= m
           [] FaceName = "left"   -> y < 0 /\ Abs(x) <= Abs(y) /\ Abs(z) <= m
           [] FaceName = "front"  -> x > 0 /\ Abs(y) <= Abs(x) /\ Abs(z) <= m
           [] FaceName = "right"  -> y > 0 /\ Abs(x) <= Abs(y) /\ Abs(z) <= m
           [] FaceName = "top"    -> z > 0 /\ Abs(z) >= m
           [] FaceName = "bottom" -> z < 0 /\ Abs(z) >= m

\* the last pixel of a face of edge at least 3 has been mapped, on the boundary
\* of its region
C9_Witness ==
    /\ loc.done
    /\ E >= 3
    /\ loc.x_out = E - 1 /\ loc.y_out = 0
    /\ FaceName = "right"
    /\ Abs(loc.xyz[3]) = Abs(loc.xyz[2])

\* the face generated into image id: the driver allocates one image per face
FaceOfImage(id) == FaceOrder[id]

\* the colour the loop body computes for pixel p of face f
Sampled(f, p) ==
    Body(NoLocals, input_size, input_pixels, CUBEMAP_FACES[f],
         DriverEdge(input_size), p[1], p[2]).rgb

\* every pixel is written at most once and, once written, holds the colour
\* sampled for it; a saved buffer has all E*E pixels written exactly once and
\* has not changed since it was saved
C3_Safety ==
    /\ \A id \in 1..Len(heap) : \A p \in Grid(DriverEdge(input_size), DriverEdge(input_size)) :
          /\ writes[id][p] <= 1
          /\ writes[id][p] = 1 => heap[id].pixels[p] = Sampled(FaceOfImage(id), p)
    /\ pc = "returned" => \A p \in DOMAIN writes[out_image] : writes[out_image][p] = 1
    /\ \A i \in 1..Len(saved) :
          /\ saved[i].face = FaceOfImage(saved[i].img)
          /\ DOMAIN saved[i].pixels = Grid(DriverEdge(input_size), DriverEdge(input_size))
          /\ \A p \in DOMAIN saved[i].pixels : writes[saved[i].img][p] = 1
          /\ heap[saved[i].img].pixels = saved[i].pixels
    /\ pc = "done" => Len(saved) = Len(FaceOrder)

\* C3: generation terminates, each of the E*E pixels of a face buffer is written
\* exactly once with its sampled colour, a buffer is saved only when all of its
\* pixels are written, and no pixel of a saved buffer is written afterwards.
C3_CompleteBeforeSave == [] C3_Safety /\ <>(pc = "done")

\* all six faces of edge at least 2 are saved, every pixel written once
C3_Witness ==
    /\ pc = "done"
    /\ Len(saved) = 6
    /\ DriverEdge(input_size) >= 2
    /\ \A id \in 1..6 : \A p \in DOMAIN writes[id] : writes[id][p] = 1

\* the source image is uniform
IsUniform == \A p \in DOMAIN input_pixels : input_pixels[p] = input_pixels[<<0, 0>>]

\* C8: a uniform source of colour c yields six face buffers of edge W/4 whose
\* every pixel is exactly c.
C8_UniformSource ==
    IsUniform =>
      /\ \A id \in 1..Len(heap) : \A p \in DOMAIN writes[id] :
            writes[id][p] = 1 => heap[id].pixels[p] = input_pixels[<<0, 0>>]
      /\ \A i \in 1..Len(saved) :
            saved[i].pixels = [p \in Grid(W \div 4, W \div 4) |-> input_pixels[<<0, 0>>]]
      /\ pc = "done" => {saved[i].face : i \in 1..Len(saved)} = FaceNames

\* six solid-red faces of edge 4 have been saved, the seam and the poles sampled
C8_Witness ==
    /\ pc = "done"
    /\ input_pixels = Uniform(W, H, Red)
    /\ W \div 4 = 4
    /\ Len(saved) = 6
    /\ \A i \in 1..6 : saved[i].pixels[<<2, 2>>] = Red

\* the source image is the single white pixel at (0, H/2) on black
IsSpot == input_pixels = Spot(W, H)

\* the body's blend took a non-zero share of the white source pixel
TouchesSpot(l) ==
    \E c \in {"A", "B", "C", "D"} : l.idx[c] = SpotAt(W, H) /\ Weight(l, c) > 0

\* the columns of the back and left faces next to their shared edge: a quarter
\* of the face, at least one column
SeamBand(e) == Max(1, e \div 4)

AtLeftBackSeam(f, col, e) ==
    \/ f = "back" /\ col >= e - SeamBand(e)
    \/ f = "left" /\ col < SeamBand(e)

\* within one pixel of the centre of the face
NearCentre(p, e) == Abs(2 * p[1] - e) <= 1 /\ Abs(2 * p[2] - e) <= 1

\* C7 as stated: the destination pixels that take a share of the white source
\* pixel lie at the shared edge of the left and back faces.
C7_SpotAtLeftBackSeam ==
    (IsSpot /\ loc.done /\ TouchesSpot(loc))
        => AtLeftBackSeam(FaceName, loc.x_out, E)

\* C7 amended: for a face edge of at least 2 the destination pixels that take a
\* share of the white source pixel lie on the back face within one pixel of its
\* centre, every other pixel of the six faces is black, and for an even edge
\* the centre pixel of the back face is exactly white.
C7_SpotAtBackCentre ==
    (IsSpot /\ W \div 4 >= 2) =>
      /\ (loc.done /\ TouchesSpot(loc)) =>
            FaceName = "back" /\ NearCentre(<<loc.x_out, loc.y_out>>, E)
      /\ \A i \in 1..Len(saved) : \A p \in DOMAIN saved[i].pixels :
            saved[i].pixels[p] # <<0, 0, 0>> =>
                saved[i].face = "back" /\ NearCentre(p, W \div 4)
      /\ \A i \in 1..Len(saved) :
            (saved[i].face = "back" /\ (W \div 4) % 2 = 0) =>
                saved[i].pixels[<<W \div 8, W \div 8>>] = White

\* the white spot has been saved at the centre of the back face of edge 4
C7_Witness ==
    /\ IsSpot
    /\ W \div 4 = 4
    /\ pc = "done"
    /\ \E i \in 1..Len(saved) :
          /\ saved[i].face = "back"
          /\ saved[i].pixels[<<2, 2>>] = White
          /\ saved[i].pixels[<<3, 2>>] = <<0, 0, 0>>

C4_OrderIndependent ==
    /\ \A id \in 1..Len(heap) : \A p \in DOMAIN writes[id] :
          /\ writes[id][p] <= 1
          /\ writes[id][p] = 0 => heap[id].pixels[p] = <<0, 0, 0>>
    /\ pc = "joined" =>
          \A f \in {j[1] : j \in wk.jobs} :
              heap[ImageOf(f)].pixels = SequentialFace(f, EdgeOf(heap[ImageOf(f)]))

\* the join is reached after the pixel the sequential loop writes last was
\* written before the last pixel of either worker
C4_Witness ==
    /\ pc = "joined"
    /\ Cardinality(wk.jobs) = 4
    /\ wk.frame[1].loc.done /\ wk.frame[2].loc.done
    /\ LET last == CHOOSE j \in wk.jobs :
                      \A i \in wk.jobs :
                          <<ImageOf(i[1]), i[2][1], i[2][2]>> = <<ImageOf(j[1]), j[2][1], j[2][2]>>
                          \/ ImageOf(i[1]) < ImageOf(j[1])
                          \/ (ImageOf(i[1]) = ImageOf(j[1]) /\ i[2][1] < j[2][1])
                          \/ (ImageOf(i[1]) = ImageOf(j[1]) /\ i[2][1] = j[2][1]
                                /\ i[2][2] < j[2][2])
       IN /\ wk.frame[1].job # last
          /\ wk.frame[2].job # last

=============================================================================
